---- MODULE Spec2Model ----
(***************************************************************************)
(* Model of model/channel.py: the Channel record (constructor, create,     *)
(* read), the declared column constraints of table 'channels', and the     *)
(* seeding routine initChannels().                                         *)
(*                                                                         *)
(* The store is the SQLAlchemy session db.session over the 'groups' and    *)
(* 'channels' tables.  Python None is NONE for names, NoneId for ids and   *)
(* PyNone for the attributes argument.                                     *)
(***************************************************************************)
EXTENDS Integers, Sequences, FiniteSets, TLC

(* ---------------- bounds of the exploration ---------------- *)
MaxEvents == 3      \* calls of initChannels() and create(), plus errors the store
                    \* raises for a reason of its own, in one behaviour
MaxMissing == 1     \* groups of the seeder's list that are absent from the store

(* ---------------- Python / SQL values ---------------- *)
NONE == "<None>"    \* Python None in a string position
NoneId == 0         \* Python None / SQL NULL in an integer position
NoError == ""

AttributeError == "AttributeError"
SAIntegrityError == "sqlalchemy.exc.IntegrityError"
SAOperationalError == "sqlalchemy.exc.OperationalError"
Sqlite3IntegrityError == "sqlite3.IntegrityError"

\* line 2: the only exception class imported, hence the only one the
\* except clause of line 148 names
IntegrityError == Sqlite3IntegrityError

\* Exception classes db.session.commit() can surface for a reason other than
\* the declared constraints of the inserted row: SQLAlchemy's wrappers of a
\* constraint conflict or an operational failure of the database, and the
\* driver's own class when it is raised unwrapped.
StoreErrors == {SAIntegrityError, SAOperationalError, Sqlite3IntegrityError}

PyNone == [isNone |-> TRUE, items |-> <<>>]
PyDict(items) == [isNone |-> FALSE, items |-> items]
EmptyDict == PyDict(<<>>)

\* Python truthiness of an attributes argument: None and {} are falsy
Truthy(v) == ~v.isNone /\ Len(v.items) > 0

\* the a-or-b expression of line 39
PyOrNone(a, b) == a
PyOr(a, b) == IF Truthy(a) THEN a ELSE b

(* ---------------- JSON column type (line 23) ---------------- *)
Tok(k, s) == [k |-> k, s |-> s]

RECURSIVE DumpItems(_)
DumpItems(items) ==
    IF Len(items) = 0 THEN <<>>
    ELSE <<Tok("str", items[1][1]), Tok(":", ""), Tok("str", items[1][2])>>
         \o (IF Len(items) > 1 THEN <<Tok(",", "")>> ELSE <<>>)
         \o DumpItems(Tail(items))

\* bind processor of the JSON column: Python value -> JSON text (as tokens)
JsonDumps(v) ==
    IF v.isNone THEN <<Tok("null", "")>>
    ELSE <<Tok("{", "")>> \o DumpItems(v.items) \o <<Tok("}", "")>>

\* result processor of the JSON column: JSON text -> Python value
JsonLoads(t) ==
    IF t = <<Tok("null", "")>> THEN PyNone
    ELSE PyDict([n \in 1..((Len(t) - 1) \div 4) |->
                    <<t[4 * n - 2].s, t[4 * n].s>>])

(* ---------------- Channel (lines 7-90) ---------------- *)
\* Channel.__init__, lines 28-39: id is left to the store
ChannelInit(name, group_id, attributes) ==
    [id |-> NoneId, name |-> name, group_id |-> group_id,
     attributes |-> PyOr(attributes, EmptyDict)]

\* Channel.read, lines 78-90
read(self) ==
    [id |-> self.id, name |-> self.name,
     attributes |-> self.attributes, group_id |-> self.group_id]

NoDict == [id |-> NoneId, name |-> NONE, attributes |-> PyNone, group_id |-> NoneId]

(* ---------------- seeder data (lines 110-142) ---------------- *)
GroupNames == <<"General", "Support", "Limitless Connections", "DNHS Football",
                "School Subjects", "Music", "Satire", "Activity Hub">>

\* id of the Group row of a name, in a store that has it
GroupIdOf(n) == CHOOSE k \in 1..Len(GroupNames) : GroupNames[k] = n

home_page_channels ==
    << <<"Announcements", "General">>, <<"Events", "General">>,
       <<"FAQ", "Support">>, <<"Help Desk", "Support">> >>

shared_interest_channels ==
    << <<"Penpal Letters", "Limitless Connections">>,
       <<"Game vs Poway", "DNHS Football">>, <<"Game vs Westview", "DNHS Football">>,
       <<"Math", "School Subjects">>, <<"English", "School Subjects">>,
       <<"Artist", "Music">>, <<"Music Genre", "Music">>,
       <<"Humor", "Satire">>, <<"Memes", "Satire">>, <<"Irony", "Satire">>,
       <<"Cyber Patriots", "Activity Hub">>, <<"Robotics", "Activity Hub">> >>


NumHome == Len(home_page_channels)
NumChannels == Len(home_page_channels) + Len(shared_interest_channels)

\* the two lists concatenated the other way round
channelsReversed(b) == SubSeq(b, NumHome + 1, Len(b)) \o SubSeq(b, 1, NumHome)

\* line 142: channels = home_page_channels + shared_interest_channels, where b
\* holds the constructed objects in construction order
channels(b) == SubSeq(b, 1, NumHome) \o SubSeq(b, NumHome + 1, Len(b))

Step(op, grp, ch, idx) == [op |-> op, grp |-> grp, ch |-> ch, idx |-> idx]

Lookups(names) == [k \in 1..Len(names) |-> Step("lookup", names[k], "", 0)]
Constructs(list) == [k \in 1..Len(list) |-> Step("construct", list[k][2], list[k][1], 0)]
Persists(from, to) == [k \in 1..(to - from + 1) |-> Step("persist", "", "", from + k - 1)]

\* a seeder that persists each list as soon as it is built
ProgramEager ==
    Lookups(SubSeq(GroupNames, 1, 2)) \o Constructs(home_page_channels)
    \o Persists(1, NumHome)
    \o Lookups(SubSeq(GroupNames, 3, 8)) \o Constructs(shared_interest_channels)
    \o Persists(NumHome + 1, NumChannels)

\* the statements of initChannels in execution order, lines 111-150: the two
\* lookups and four constructions of the home page list, the six lookups and
\* twelve constructions of the shared interest list, then the loop
Program ==
    Lookups(SubSeq(GroupNames, 1, 2)) \o Constructs(home_page_channels)
    \o Lookups(SubSeq(GroupNames, 3, 8)) \o Constructs(shared_interest_channels)
    \o Persists(1, NumChannels)

(* ---------------- state ---------------- *)
VARIABLES
    groups,       \* names of the Group rows in the store
    schemaReady,  \* the 'channels' table exists
    rows,         \* the 'channels' table, in insertion order
    nextId,       \* next primary key the store hands out
    session,      \* db.session: pending objects and transaction state
    pc,           \* 0: initChannels not running; else the next step of Program
    env,          \* initChannels' local group variables: group name index -> id
    built,        \* the Channel objects constructed so far in this run
    run,          \* what the current (or last) run of initChannels did
    last,         \* what the last call of create() did, until initChannels is called
    snap,         \* the 'channels' table when the current (or last) call began
    faults        \* store errors injected so far

vars == <<groups, schemaReady, rows, nextId, session, pc, env, built, run, last, snap, faults>>

GroupSet == {GroupNames[k] : k \in 1..Len(GroupNames)}
GroupIds == {GroupIdOf(n) : n \in groups}

\* calls made and store faults suffered so far
Events == run.n + last.n + faults

CleanSession == [pending |-> <<>>, state |-> "clean"]

(* ---------------- db.session ---------------- *)
SessionAdd(s, obj) == [s EXCEPT !.pending = Append(@, obj)]

SessionRollback(s) == CleanSession

\* app context teardown at the end of the with block of line 105
AppContextExit(s) == CleanSession

\* The store checks the foreign keys a table declares at insert time.  The
\* database and its configuration are set up where db is created (module
\* __init__, imported in line 4).
ForeignKeysEnforced == TRUE

\* declared constraints of table 'channels', lines 21-24, without the foreign key
ColumnViolationNoFK(obj) ==
    \/ obj.name = NONE
    \/ obj.group_id = NoneId

\* declared constraints of table 'channels', lines 21-24, with a unique name
ColumnViolationUnique(obj) ==
    \/ obj.name = NONE
    \/ obj.group_id = NoneId
    \/ obj.group_id \notin GroupIds
    \/ \E k \in 1..Len(rows) : rows[k].name = obj.name /\ rows[k].group_id = obj.group_id

\* declared constraints of table 'channels', lines 21-24, with a nullable name
ColumnViolationNullableName(obj) ==
    \/ obj.group_id = NoneId
    \/ obj.group_id \notin GroupIds

\* declared constraints of table 'channels', lines 21-24: name NOT NULL,
\* group_id NOT NULL and a foreign key to groups.id; attributes nullable
ColumnViolation(obj) ==
    \/ obj.name = NONE
    \/ obj.group_id = NoneId
    \/ (ForeignKeysEnforced /\ obj.group_id \notin GroupIds)

\* the error the data of one pending object explains
DataError(obj) ==
    IF ~schemaReady THEN SAOperationalError
    ELSE IF ColumnViolation(obj) THEN SAIntegrityError
    ELSE IF obj.id # NoneId /\ \E k \in 1..Len(rows) : rows[k].id = obj.id
         THEN SAIntegrityError
    ELSE NoError

RowOf(obj, id) ==
    [id |-> id, name |-> obj.name,
     attributes |-> JsonDumps(obj.attributes), group_id |-> obj.group_id]

\* the object as reloaded from its row after the commit expired it
Refresh(row) ==
    [id |-> row.id, name |-> row.name, group_id |-> row.group_id,
     attributes |-> JsonLoads(row.attributes)]

\* db.session.commit(): flushes the pending objects in one transaction.
\* fault is the error the store raises for a reason of its own, if any.
Commit(s, fault) ==
    LET errs == {DataError(s.pending[k]) : k \in 1..Len(s.pending)} \ {NoError}
        err == IF errs # {} THEN CHOOSE e \in errs : TRUE ELSE fault
        n == Len(s.pending)
        ins == [k \in 1..n |->
                  RowOf(s.pending[k],
                        IF s.pending[k].id = NoneId THEN nextId + k - 1
                        ELSE s.pending[k].id)]
    IN IF err # NoError
       THEN [err |-> err, rows |-> rows, nextId |-> nextId,
             session |-> [s EXCEPT !.state = "inactive"]]
       ELSE [err |-> NoError, rows |-> rows \o ins, nextId |-> nextId + n,
             session |-> CleanSession]


(* ---------------- Channel.create (lines 61-76) ---------------- *)
\* an except clause that rolls back and returns
create_exceptSwallow(s, e) == [session |-> SessionRollback(s), raised |-> NoError]

\* the except clause of lines 74-76: roll back, raise the same error
create_except(s, e) == [session |-> SessionRollback(s), raised |-> e]

\* arguments of Channel(name, group_id, attributes): a usable name with each
\* kind of attributes argument, an empty and a missing name, a missing group id
\* and the id of no group; 1 is the id of group 'General' when it exists
CreateInputs ==
    { <<"Lobby", 1, PyNone>>, <<"Lobby", 1, EmptyDict>>,
      <<"Lobby", 1, PyDict(<< <<"topic", "news">>, <<"lang", "en">> >>)>>,
      <<"", 1, PyNone>>, <<NONE, 1, PyNone>>,
      <<"Lobby", NoneId, PyNone>>, <<"Lobby", 9, EmptyDict>> }

NoCall == [n |-> 0, called |-> FALSE, name |-> NONE, group_id |-> NoneId,
           attributes |-> PyNone, hadTable |-> FALSE,
           err |-> NoError, raised |-> NoError, ok |-> FALSE, ret |-> NoDict]

NoRun == [n |-> 0, base |-> 0, attempted |-> 0, skipped |-> {}, storeErrs |-> <<>>,
          injected |-> 0, raised |-> NoError, at |-> 0, log |-> <<>>, done |-> FALSE]

\* Channel(name, group_id, attributes).create() followed, when it returns,
\* by read()
create(name, group_id, attributes, fault) ==
    /\ pc = 0
    /\ Events < MaxEvents
    /\ LET self == ChannelInit(name, group_id, attributes)
           res == Commit(SessionAdd(session, self), fault)
           h == create_except(res.session, res.err)
       IN /\ fault # NoError => (Events + 1 < MaxEvents /\ DataError(self) = NoError)
          /\ faults' = IF fault # NoError THEN faults + 1 ELSE faults
          /\ snap' = rows
          /\ rows' = res.rows
          /\ nextId' = res.nextId
          /\ IF res.err = NoError
             THEN /\ session' = res.session
                  /\ last' = [n |-> last.n + 1, called |-> TRUE, name |-> name,
                              group_id |-> group_id, attributes |-> attributes,
                              hadTable |-> schemaReady, err |-> NoError,
                              raised |-> NoError, ok |-> TRUE,
                              ret |-> read(Refresh(res.rows[Len(res.rows)]))]
             ELSE /\ session' = h.session
                  /\ last' = [n |-> last.n + 1, called |-> TRUE, name |-> name,
                              group_id |-> group_id, attributes |-> attributes,
                              hadTable |-> schemaReady, err |-> res.err,
                              raised |-> h.raised, ok |-> h.raised = NoError,
                              ret |-> NoDict]
    /\ UNCHANGED <<groups, schemaReady, pc, env, built, run>>

(* ---------------- initChannels (lines 92-150) ---------------- *)
NoEnv == [k \in 1..Len(GroupNames) |-> NoneId]

\* Query.one(): raises when no row matches
QueryOne(n) ==
    [raised |-> IF n \in groups THEN NoError ELSE "NoResultFound",
     id |-> IF n \in groups THEN GroupIdOf(n) ELSE NoneId]

\* Group.query.filter_by(_name=n).first(), lines 111-126: the row, or None
QueryFirst(n) ==
    [raised |-> NoError, id |-> IF n \in groups THEN GroupIdOf(n) ELSE NoneId]

\* an except clause that catches every exception
HandlesAny(e) == TRUE

\* the except clause of line 148
Handles(e) == e = IntegrityError

\* an exception leaves initChannels through the with block of line 105
Abort(e) ==
    /\ pc' = 0
    /\ env' = NoEnv
    /\ built' = <<>>
    /\ session' = AppContextExit(session)
    /\ run' = [run EXCEPT !.raised = e, !.at = pc]

\* lines 105-107: enter the app context, db.create_all()
Begin ==
    /\ pc = 0
    /\ Events < MaxEvents
    /\ pc' = 1
    /\ schemaReady' = TRUE
    /\ env' = NoEnv
    /\ built' = <<>>
    /\ run' = [NoRun EXCEPT !.n = run.n + 1, !.base = Len(rows)]
    /\ snap' = rows
    /\ last' = [NoCall EXCEPT !.n = last.n]
    /\ UNCHANGED <<groups, rows, nextId, session, faults>>

InRun(op) == pc \in 1..Len(Program) /\ Program[pc].op = op

\* one of the assignments of lines 111-112 and 121-126
LookupGroup ==
    /\ InRun("lookup")
    /\ LET q == QueryFirst(Program[pc].grp)
       IN IF q.raised # NoError
          THEN Abort(q.raised)
          ELSE /\ env' = [env EXCEPT ![GroupIdOf(Program[pc].grp)] = q.id]
               /\ pc' = pc + 1
               /\ UNCHANGED <<built, session, run>>
    /\ UNCHANGED <<groups, schemaReady, rows, nextId, last, snap, faults>>

\* one of the list elements of lines 114-117 and 128-139: evaluate
\* <group variable>.id, then construct the Channel
ConstructChannel ==
    /\ InRun("construct")
    /\ LET g == env[GroupIdOf(Program[pc].grp)]
       IN IF g = NoneId
          THEN Abort(AttributeError)
          ELSE /\ built' = Append(built, ChannelInit(Program[pc].ch, g, PyNone))
               /\ pc' = pc + 1
               /\ UNCHANGED <<env, session, run>>
    /\ UNCHANGED <<groups, schemaReady, rows, nextId, last, snap, faults>>

\* one iteration of the loop of lines 143-150
PersistChannel(fault) ==
    /\ InRun("persist")
    /\ LET i == Program[pc].idx
           channel == channels(built)[i]
           res == Commit(SessionAdd(session, channel), fault)
           tried == [run EXCEPT !.attempted = i,
                                !.injected = IF fault # NoError THEN @ + 1 ELSE @]
       IN /\ fault # NoError => (Events < MaxEvents /\ DataError(channel) = NoError)
          /\ faults' = IF fault # NoError THEN faults + 1 ELSE faults
          /\ rows' = res.rows
          /\ nextId' = res.nextId
          /\ IF res.err = NoError
             THEN /\ session' = res.session
                  /\ run' = [tried EXCEPT !.log = Append(@, <<"Record created", channel.name>>)]
                  /\ pc' = pc + 1
                  /\ UNCHANGED <<env, built>>
             ELSE IF Handles(res.err)
             THEN /\ session' = SessionRollback(res.session)
                  /\ run' = [tried EXCEPT !.log = Append(@, <<"Records exist", channel.name>>),
                                          !.skipped = @ \cup {i},
                                          !.storeErrs = Append(@, <<i, res.err>>)]
                  /\ pc' = pc + 1
                  /\ UNCHANGED <<env, built>>
             ELSE /\ pc' = 0
                  /\ env' = NoEnv
                  /\ built' = <<>>
                  /\ session' = AppContextExit(res.session)
                  /\ run' = [tried EXCEPT !.raised = res.err, !.at = pc,
                                          !.storeErrs = Append(@, <<i, res.err>>)]
    /\ UNCHANGED <<groups, schemaReady, last, snap>>

\* the loop is over: leave the with block and return
End ==
    /\ pc = Len(Program) + 1
    /\ pc' = 0
    /\ env' = NoEnv
    /\ built' = <<>>
    /\ session' = AppContextExit(session)
    /\ run' = [run EXCEPT !.done = TRUE]
    /\ UNCHANGED <<groups, schemaReady, rows, nextId, last, snap, faults>>

(* ---------------- specification ---------------- *)
Init ==
    /\ \E missing \in SUBSET GroupSet :
          /\ Cardinality(missing) <= MaxMissing
          /\ groups = GroupSet \ missing
    /\ schemaReady \in BOOLEAN
    /\ rows = <<>>
    /\ nextId = 1
    /\ session = CleanSession
    /\ pc = 0
    /\ env = NoEnv
    /\ built = <<>>
    /\ run = NoRun
    /\ last = NoCall
    /\ snap = <<>>
    /\ faults = 0

Next ==
    \/ \E args \in CreateInputs, fault \in {NoError} \cup StoreErrors :
          create(args[1], args[2], args[3], fault)
    \/ Begin
    \/ LookupGroup
    \/ ConstructChannel
    \/ \E fault \in {NoError} \cup StoreErrors : PersistChannel(fault)
    \/ End

Spec == Init /\ [][Next]_vars


(* ---------------- properties ---------------- *)
\* the table still starts with the rows it had when the current call began
KeepsSnap == Len(rows) >= Len(snap) /\ SubSeq(rows, 1, Len(snap)) = snap

\* C1: whenever create() fails, the transaction is rolled back, the same
\* error is raised to the caller (create never returns normally) and the
\* stored channel records are those from before the call.
C1_CreateFailureRollsBackAndRaises ==
    (last.called /\ last.err # NoError) =>
        /\ last.raised = last.err
        /\ ~last.ok
        /\ rows = snap
        /\ session = CleanSession

C1_Witness ==
    /\ last.called
    /\ last.err = SAOperationalError
    /\ last.hadTable
    /\ Len(rows) = NumChannels

\* the (name, group id) pairs the seeder lists, in list order, lines 114-139
C_Listed ==
    << <<"Announcements", "General">>, <<"Events", "General">>,
       <<"FAQ", "Support">>, <<"Help Desk", "Support">>,
       <<"Penpal Letters", "Limitless Connections">>,
       <<"Game vs Poway", "DNHS Football">>, <<"Game vs Westview", "DNHS Football">>,
       <<"Math", "School Subjects">>, <<"English", "School Subjects">>,
       <<"Artist", "Music">>, <<"Music Genre", "Music">>,
       <<"Humor", "Satire">>, <<"Memes", "Satire">>, <<"Irony", "Satire">>,
       <<"Cyber Patriots", "Activity Hub">>, <<"Robotics", "Activity Hub">> >>

\* table t holds a record for every channel of the seeder's list
SeededIn(t) ==
    \A j \in 1..Len(C_Listed) :
        \E k \in 1..Len(t) :
            /\ t[k].name = C_Listed[j][1]
            /\ t[k].group_id = GroupIdOf(C_Listed[j][2])

\* C2: a run of initChannels() against a store that already holds the records
\* of a complete earlier run, in which the store raises no error of its own,
\* ends without an error reaching the caller, and at every point of the run
\* every record from before it is still there, unchanged.
C2_RerunKeepsRecordsAndReturns ==
    (run.n >= 1 /\ SeededIn(snap)) =>
        /\ KeepsSnap
        /\ (pc = 0 /\ run.injected = 0) => (run.done /\ run.raised = NoError)

C2_Witness ==
    /\ run.n = 2
    /\ SeededIn(snap)
    /\ run.done
    /\ Len(rows) = 2 * NumChannels

IsConflict(e) == e \in {SAIntegrityError, Sqlite3IntegrityError}

C4_OtherErrorPropagatesAndHalts ==
    \A k \in 1..Len(run.storeErrs) :
        run.storeErrs[k][2] # Sqlite3IntegrityError =>
            /\ run.raised = run.storeErrs[k][2]
            /\ pc = 0
            /\ ~run.done
            /\ run.attempted = run.storeErrs[k][1]
            /\ k = Len(run.storeErrs)

C4_Witness ==
    /\ run.raised = SAOperationalError
    /\ run.attempted = 5
    /\ Len(rows) = run.base + 4
    /\ pc = 0

\* C5: when create() returns, read() gives the name and group id supplied,
\* the attributes supplied (the empty mapping when none or None was supplied)
\* and the id of the row the store inserted for it.
C5_CreateThenReadRoundTrip ==
    last.ok =>
        /\ last.ret.name = last.name
        /\ last.ret.group_id = last.group_id
        /\ last.ret.attributes =
              (IF last.attributes.isNone THEN EmptyDict ELSE last.attributes)
        /\ last.ret.id # NoneId
        /\ \A k \in 1..Len(snap) : snap[k].id # last.ret.id
        /\ Len(rows) = Len(snap) + 1
        /\ rows[Len(rows)].id = last.ret.id
        /\ rows[Len(rows)].name = last.name
        /\ rows[Len(rows)].group_id = last.group_id

C5_Witness ==
    /\ last.ok
    /\ last.attributes = PyNone
    /\ last.ret.attributes = EmptyDict
    /\ last.ret.id = NumChannels + 1

\* C6: with no 'General' group in the store, initChannels() ends with a
\* reference error (AttributeError on None) raised where the first channel of
\* that group is constructed, and never completes normally.
C6_MissingGeneralRaisesAtConstruction ==
    ("General" \notin groups /\ run.n >= 1) =>
        /\ ~run.done
        /\ pc <= 3
        /\ pc = 0 =>
              /\ run.raised = AttributeError
              /\ Program[run.at] = Step("construct", "General", "Announcements", 0)

C6_Witness ==
    /\ "General" \notin groups
    /\ run.n >= 1
    /\ pc = 0
    /\ run.raised = AttributeError

\* C7: every stored channel record references an existing group, and no two
\* stored channel records have the same id.
C7_RowsReferenceGroupsAndIdsUnique ==
    /\ \A k \in 1..Len(rows) : rows[k].group_id \in GroupIds
    /\ \A j, k \in 1..Len(rows) : rows[j].id = rows[k].id => j = k

C7_Witness ==
    /\ last.ok
    /\ run.done
    /\ Len(rows) = NumChannels + 1

\* C8 as stated: create() on a Channel with an empty name fails, and no
\* record with an empty name is ever stored.
C8_EmptyNameRejected ==
    /\ (last.called /\ last.name = "") => last.raised # NoError
    /\ \A k \in 1..Len(rows) : rows[k].name # ""

\* C8 amended: create() on a Channel whose name is None fails at persist time
\* (with the store's IntegrityError when the table exists), and no record
\* with a null name is ever stored.
C8_NullNameRejected ==
    /\ (last.called /\ last.name = NONE) =>
          /\ last.raised # NoError
          /\ ~last.ok
          /\ last.hadTable => last.raised = SAIntegrityError
    /\ \A k \in 1..Len(rows) : rows[k].name # NONE

C8_Witness ==
    /\ last.called
    /\ last.name = NONE
    /\ last.group_id = 1
    /\ last.raised = SAIntegrityError

\* the (name, group id) pairs of the rows the current run has inserted
RunRows == [k \in 1..(Len(rows) - run.base) |->
               <<rows[run.base + k].name, rows[run.base + k].group_id>>]

RECURSIVE ListedExcept(_, _, _)
\* the listed pairs at positions from..to, without those in skip
ListedExcept(from, to, skip) ==
    IF from > to THEN <<>>
    ELSE (IF from \in skip THEN <<>>
          ELSE << <<C_Listed[from][1], GroupIdOf(C_Listed[from][2])>> >>)
         \o ListedExcept(from + 1, to, skip)

\* positions whose insert the store refused in this run
Refused == {run.storeErrs[k][1] : k \in 1..Len(run.storeErrs)}

\* C9: at every point of a run the rows it has committed are those of a
\* prefix of the list, in list order, minus the ones refused, and a complete
\* run without a conflict commits exactly the sixteen listed channels.
C9_CommitsListPrefixInOrder ==
    (run.n >= 1 /\ ~last.called) =>
        /\ RunRows = ListedExcept(1, run.attempted, Refused)
        /\ run.skipped \subseteq Refused
        /\ (run.done /\ Refused = {}) =>
              /\ groups = GroupSet
              /\ RunRows = ListedExcept(1, Len(C_Listed), {})
              /\ Len(RunRows) = 16

C9_Witness ==
    /\ pc # 0
    /\ run.n = 2
    /\ run.attempted = 7
    /\ Len(rows) = NumChannels + 7

\* C10: when one of the eight groups is absent, a run inserts no channel at
\* all: the table is the same after the failed run as before it.
C10_MissingGroupInsertsNothing ==
    (groups # GroupSet /\ run.n >= 1 /\ ~last.called) =>
        /\ rows = snap
        /\ ~run.done
        /\ pc = 0 => run.raised = AttributeError

C10_Witness ==
    /\ "Music" \notin groups
    /\ run.n >= 1
    /\ pc = 0
    /\ run.raised = AttributeError
    /\ run.at > NumHome + 2

====
